---- MODULE Spec2Model ----
(***************************************************************************)
(* Heuristic PDF title extraction (src/main.py).                           *)
(*                                                                         *)
(* Five specifications share this module:                                  *)
(*   SpecScore  calculate_title_score, one numbered section per step       *)
(*   SpecTitle  extract_title over lists of pages                          *)
(*   SpecE2E    extract_title over single-page documents made of one large *)
(*              span and small spans                                       *)
(*   SpecNorm   extract_text_elements_from_pdf, one page per step          *)
(*   SpecBatch  process_pdfs over an input directory                       *)
(*                                                                         *)
(* A text is a sequence of one-character strings.  Normalized coordinates  *)
(* (floats in the source) are integers counting thousandths, so 0.7 is 700 *)
(* and the page centre 0.5 is 500.                                         *)
(***************************************************************************)
EXTENDS Integers, Sequences, FiniteSets, TLC

VARIABLES
    \* calculate_title_score
    text_element, page_num, score, text_length, spc,
    \* extract_title
    pdf_pages, title, title_candidates, tpc,
    \* extract_text_elements_from_pdf
    doc, doc_open, n_page_num, norm_pages, npc,
    \* process_pdfs
    input_dir, output_dir, pdf_files, file_idx, cur_pages, handles,
    closed, started, bpc

scoreVars == <<text_element, page_num, score, text_length, spc>>
titleVars == <<pdf_pages, title, title_candidates, tpc>>
normVars  == <<doc, doc_open, n_page_num, norm_pages, npc>>
batchVars == <<input_dir, output_dir, pdf_files, file_idx, cur_pages,
               handles, closed, started, bpc>>
vars == <<scoreVars, titleVars, normVars, batchVars>>

----------------------------------------------------------------------------
(* Characters and the str methods the program uses *)

UpperSeq == <<"A","B","C","D","E","F","G","H","I","J","K","L","M",
              "N","O","P","Q","R","S","T","U","V","W","X","Y","Z">>
LowerSeq == <<"a","b","c","d","e","f","g","h","i","j","k","l","m",
              "n","o","p","q","r","s","t","u","v","w","x","y","z">>
UpperChars == {UpperSeq[i] : i \in 1..Len(UpperSeq)}
LowerChars == {LowerSeq[i] : i \in 1..Len(LowerSeq)}
DigitChars == {"0","1","2","3","4","5","6","7","8","9"}
SpaceChars == {" ", "\t", "\n"}

upperChar(c) ==
    IF c \in LowerChars
    THEN UpperSeq[CHOOSE i \in 1..Len(LowerSeq) : LowerSeq[i] = c]
    ELSE c

lowerChar(c) ==
    IF c \in UpperChars
    THEN LowerSeq[CHOOSE i \in 1..Len(UpperSeq) : UpperSeq[i] = c]
    ELSE c

\* str.upper() / str.lower()
upper(t) == [i \in 1..Len(t) |-> upperChar(t[i])]
lower(t) == [i \in 1..Len(t) |-> lowerChar(t[i])]

\* str.strip(): drop leading and trailing whitespace
RECURSIVE lstrip(_)
lstrip(t) ==
    IF t # <<>> /\ Head(t) \in SpaceChars THEN lstrip(Tail(t)) ELSE t

RECURSIVE rstrip(_)
rstrip(t) ==
    IF t # <<>> /\ t[Len(t)] \in SpaceChars
    THEN rstrip(SubSeq(t, 1, Len(t) - 1)) ELSE t

strip(t) == rstrip(lstrip(t))

\* str.isupper(): at least one cased character and every cased character
\* is uppercase.  isupper_mut is the variant that compares with upper().
isupper_mut(t) == upper(t) = t

isupper(t) ==
    /\ \E i \in 1..Len(t) : t[i] \in UpperChars \cup LowerChars
    /\ \A i \in 1..Len(t) :
          t[i] \in UpperChars \cup LowerChars => t[i] \in UpperChars

\* str.isdigit(): non-empty and every character is a digit
isdigit(t) == t # <<>> /\ \A i \in 1..Len(t) : t[i] \in DigitChars

\* str.startswith(prefix)
startswith(t, prefix) ==
    Len(t) >= Len(prefix) /\ SubSeq(t, 1, Len(prefix)) = prefix

Rep(c, n) == [i \in 1..n |-> c]

Abs(v) == IF v < 0 THEN -v ELSE v

----------------------------------------------------------------------------
(* TextElement and the predicates of the scorer *)

TextElement(text, font_size, x_position, y_position, page_width, page_height, is_bold, is_italic, width) ==
    [text |-> text, font_size |-> font_size, x_position |-> x_position,
     y_position |-> y_position, page_width |-> page_width,
     page_height |-> page_height, is_bold |-> is_bold,
     is_italic |-> is_italic, width |-> width,
     space_above |-> 0, space_below |-> 0]

\* abs(x + width/2 - 0.5) < 0.1, both sides doubled
is_centered(e) == Abs(2 * e.x_position + e.width - 1000) < 200

is_left_aligned(e) == e.x_position < 200

has_significant_whitespace_around(e) ==
    e.y_position > 800 \/ e.y_position < 200

is_header_footer_mut(e) == e.y_position > 700 \/ e.y_position < 50

is_header_footer(e) == e.y_position > 950 \/ e.y_position < 50

is_page_number(e) ==
    LET text == strip(e.text) IN
    \/ isdigit(text)
    \/ startswith(lower(text), <<"p","a","g","e">>)
    \/ Len(text) <= 3

\* The numbered sections of calculate_title_score, as score increments
FontPoints_mut(e) ==
    IF e.font_size >= 18 THEN 45
    ELSE IF e.font_size >= 14 THEN 20 ELSE 0

FontPoints(e) ==
    IF e.font_size >= 18 THEN 40
    ELSE IF e.font_size >= 14 THEN 20 ELSE 0

PagePoints(p) == IF p = 0 THEN 25 ELSE IF p = 1 THEN 10 ELSE 0

VerticalPoints(e) == IF e.y_position > 700 THEN 15 ELSE 0

AlignPoints(e) ==
    IF is_centered(e) THEN 15
    ELSE IF is_left_aligned(e) THEN 5 ELSE 0

FormatPoints(e) ==
    (IF e.is_bold THEN 10 ELSE 0) + (IF e.is_italic THEN 5 ELSE 0)

TextLength(e) == Len(strip(e.text))

LengthPoints(len) ==
    IF 10 <= len /\ len <= 100 THEN 10
    ELSE IF len > 200 THEN -20 ELSE 0

CapsPoints(e, len) == IF isupper(e.text) /\ len > 5 THEN 8 ELSE 0

WhitespacePoints(e) ==
    IF has_significant_whitespace_around(e) THEN 10 ELSE 0

ExcludePoints(e) ==
    (IF is_header_footer(e) THEN -50 ELSE 0)
    + (IF is_page_number(e) THEN -50 ELSE 0)

calculate_title_score(e, p) ==
    FontPoints(e) + PagePoints(p) + VerticalPoints(e) + AlignPoints(e)
    + FormatPoints(e) + LengthPoints(TextLength(e))
    + CapsPoints(e, TextLength(e)) + WhitespacePoints(e) + ExcludePoints(e)

----------------------------------------------------------------------------
(* Bounds and input sets *)

MaxTextLen == 201

FontSizes == {13, 14, 18}
PageNums == {0, 1, 2}
YPositions == {40, 190, 500, 710, 810, 950, 960}
\* <<x_position, width>>: centred, left aligned, neither, centred and left
XWidths == {<<400, 200>>, <<0, 100>>, <<600, 300>>, <<0, 1000>>}
TextPrefixes == {<<>>, <<"P","a","g","e">>, <<" ">>}
TextFills == {"A", "a", "7", "-"}
TextLens == {0, 3, 4, 5, 6, 10, 101, MaxTextLen}
Texts == {pre \o Rep(c, n) : pre \in TextPrefixes, c \in TextFills,
                             n \in TextLens}

ScoreInputs ==
    {TextElement(t, f, xw[1], y, 612, 792, b, i, xw[2]) :
        t \in Texts, f \in FontSizes, xw \in XWidths, y \in YPositions,
        b \in BOOLEAN, i \in BOOLEAN}

NoElement == TextElement(<<>>, 0, 0, 0, 0, 0, FALSE, FALSE, 0)

----------------------------------------------------------------------------
(* Idle values of the variables a specification does not use *)

IdleScore ==
    /\ text_element = NoElement /\ page_num = 0 /\ score = 0
    /\ text_length = 0 /\ spc = "idle"

IdleTitle ==
    /\ pdf_pages = <<>> /\ title = <<>> /\ title_candidates = <<>>
    /\ tpc = "idle"

IdleNorm ==
    /\ doc = <<>> /\ doc_open = FALSE /\ n_page_num = 0
    /\ norm_pages = <<>> /\ npc = "idle"

IdleBatch ==
    /\ input_dir = <<>> /\ output_dir = <<>> /\ pdf_files = <<>>
    /\ file_idx = 0 /\ cur_pages = <<>> /\ handles = {} /\ closed = {}
    /\ started = {} /\ bpc = "idle"

----------------------------------------------------------------------------
(* calculate_title_score(text_element, page_num), section by section *)

InitScore ==
    /\ text_element \in ScoreInputs
    /\ page_num \in PageNums
    /\ score = 0
    /\ text_length = 0
    /\ spc = "font"
    /\ IdleTitle /\ IdleNorm /\ IdleBatch

ScoreStep(from, to, points) ==
    /\ spc = from
    /\ score' = score + points
    /\ spc' = to
    /\ UNCHANGED <<text_element, page_num, titleVars, normVars, batchVars>>

StepFont ==
    ScoreStep("font", "page", FontPoints(text_element))
    /\ UNCHANGED text_length

StepPage ==
    ScoreStep("page", "vertical", PagePoints(page_num))
    /\ UNCHANGED text_length

StepVertical ==
    ScoreStep("vertical", "align", VerticalPoints(text_element))
    /\ UNCHANGED text_length

StepAlign ==
    ScoreStep("align", "format", AlignPoints(text_element))
    /\ UNCHANGED text_length

StepFormat ==
    ScoreStep("format", "length", FormatPoints(text_element))
    /\ UNCHANGED text_length

StepLength ==
    /\ text_length' = TextLength(text_element)
    /\ ScoreStep("length", "caps", LengthPoints(TextLength(text_element)))

StepCaps ==
    ScoreStep("caps", "whitespace", CapsPoints(text_element, text_length))
    /\ UNCHANGED text_length

StepWhitespace ==
    ScoreStep("whitespace", "exclude", WhitespacePoints(text_element))
    /\ UNCHANGED text_length

StepExclude ==
    ScoreStep("exclude", "done", ExcludePoints(text_element))
    /\ UNCHANGED text_length

NextScore ==
    \/ StepFont \/ StepPage \/ StepVertical \/ StepAlign \/ StepFormat
    \/ StepLength \/ StepCaps \/ StepWhitespace \/ StepExclude

SpecScore == InitScore /\ [][NextScore]_vars

\* The stepwise run returns what the summed sections give
ScoreAgrees ==
    spc = "done" => score = calculate_title_score(text_element, page_num)

\* C3 as stated: calculate_title_score returns an integer s with
\* -70 <= s <= 123.
ScoreBoundsClaimed ==
    spc = "done" => score \in Int /\ -70 <= score /\ score <= 123

\* C3 amended: calculate_title_score returns an integer s with
\* -110 <= s <= 138, for every element and page index.
ScoreBounds ==
    spc = "done" => score \in Int /\ -110 <= score /\ score <= 138

ScoreBoundsWitness == spc = "done" /\ score = 138

ScoreLowestWitness == spc = "done" /\ score = -110

\* C6 as stated: section 7 adds 8 exactly when text.upper() == text and the
\* text is longer than 5 characters, texts without cased letters included.
AllCapsClaimed ==
    [][spc = "caps" =>
          (score' = score + 8 <=>
              (upper(text_element.text) = text_element.text
               /\ Len(text_element.text) > 5))]_vars

\* C6 amended: section 7 adds 8 exactly when the text holds at least one
\* uppercase letter and no lowercase letter (str.isupper) and the trimmed
\* text is longer than 5 characters; otherwise it adds nothing, so a text
\* without cased letters gets no bonus.
AllCapsSignal ==
    [][spc = "caps" =>
          LET t == text_element.text IN
          /\ score' \in {score, score + 8}
          /\ score' = score + 8 <=>
                /\ \E i \in 1..Len(t) : t[i] \in UpperChars
                /\ \A i \in 1..Len(t) : t[i] \notin LowerChars
                /\ Len(strip(t)) > 5]_vars

AllCapsWitness ==
    /\ spc = "whitespace"
    /\ text_length > 5
    /\ \E i \in 1..Len(text_element.text) :
          text_element.text[i] \in UpperChars
    /\ \A i \in 1..Len(text_element.text) :
          text_element.text[i] \notin LowerChars

----------------------------------------------------------------------------
(* extract_title(pdf_pages) *)

UntitledDocument ==
    <<"U","n","t","i","t","l","e","d"," ","D","o","c","u","m","e","n","t">>

Page(text_elements) == [text_elements |-> text_elements]

\* f"{v:.2f}": the value in hundredths, nearest
Format2(v) == (v + 5) \div 10

Candidate(e, p) ==
    [text |-> e.text,
     score |-> calculate_title_score(e, p),
     page |-> p + 1,
     font_size |-> e.font_size,
     is_bold |-> e.is_bold,
     position |-> <<Format2(e.x_position), Format2(e.y_position)>>]

\* The inner loop: the elements of one page that score above zero
PageCandidates_mut(page, p) ==
    LET kept == SelectSeq(page.text_elements,
                          LAMBDA e : calculate_title_score(e, p) >= 0)
    IN  [i \in 1..Len(kept) |-> Candidate(kept[i], p)]

PageCandidates(page, p) ==
    LET kept == SelectSeq(page.text_elements,
                          LAMBDA e : calculate_title_score(e, p) > 0)
    IN  [i \in 1..Len(kept) |-> Candidate(kept[i], p)]

\* The outer loop from page index p on, leaving at page_num > 2
RECURSIVE CollectCandidates(_, _)
CollectCandidates(pages, p) ==
    IF p >= Len(pages) \/ p > 2 THEN <<>>
    ELSE PageCandidates(pages[p + 1], p) \o CollectCandidates(pages, p + 1)

\* list.sort(key=score, reverse=True) is stable: an entry goes behind every
\* earlier entry whose score is at least its own.
InsertByScore_mut(sorted, c) ==
    LET ahead == SelectSeq(sorted, LAMBDA d : d.score > c.score)
        behind == SelectSeq(sorted, LAMBDA d : d.score <= c.score)
    IN  ahead \o <<c>> \o behind

InsertByScore(sorted, c) ==
    LET ahead == SelectSeq(sorted, LAMBDA d : d.score >= c.score)
        behind == SelectSeq(sorted, LAMBDA d : d.score < c.score)
    IN  ahead \o <<c>> \o behind

RECURSIVE SortByScore(_)
SortByScore(cs) ==
    IF cs = <<>> THEN <<>>
    ELSE InsertByScore(SortByScore(SubSeq(cs, 1, Len(cs) - 1)), cs[Len(cs)])

extract_title(pages) ==
    LET found == CollectCandidates(pages, 0)
        ranked == SortByScore(found)
    IN  IF found # <<>>
        THEN [title |-> ranked[1].text, candidates |-> ranked]
        ELSE [title |-> UntitledDocument, candidates |-> <<>>]

\* Inputs: lists of up to MaxPages pages holding up to MaxElements elements
\* in all, drawn from ElementPool
MaxPages == 4
MaxElements == 3

AnnualReport ==
    <<"A","n","n","u","a","l"," ","R","e","p","o","r","t"," ","2","0","2","4">>

ElementPool ==
    { TextElement(AnnualReport, 24, 400, 900, 612, 792, TRUE, FALSE, 200),
      TextElement(UntitledDocument, 24, 400, 900, 612, 792, TRUE, FALSE, 200),
      TextElement(<<"I","n","t","r","o","d","u","c","t","i","o","n">>,
                  14, 100, 500, 612, 792, FALSE, FALSE, 300),
      TextElement(<<"1","2">>, 10, 450, 40, 612, 792, FALSE, FALSE, 100),
      TextElement(<<"a","b","c","d">>, 13, 600, 500, 612, 792,
                  FALSE, FALSE, 300) }

RECURSIVE SeqsUpTo(_, _)
SeqsUpTo(S, n) ==
    IF n = 0 THEN {<<>>}
    ELSE LET shorter == SeqsUpTo(S, n - 1)
         IN  shorter \cup {Append(q, x) :
                             q \in {r \in shorter : Len(r) = n - 1}, x \in S}

\* Number of elements in a list of pages
RECURSIVE ElementCount(_)
ElementCount(pages) ==
    IF pages = <<>> THEN 0
    ELSE Len(Head(pages).text_elements) + ElementCount(Tail(pages))

InitTitle ==
    /\ pdf_pages = <<>>
    /\ title = <<>>
    /\ title_candidates = <<>>
    /\ tpc = "input"
    /\ IdleScore /\ IdleNorm /\ IdleBatch

\* The caller's pdf_pages.append(page_obj): the argument grows by one page
AppendPage ==
    /\ tpc = "input"
    /\ Len(pdf_pages) < MaxPages
    /\ \E es \in SeqsUpTo(ElementPool, MaxElements - ElementCount(pdf_pages)) :
          pdf_pages' = Append(pdf_pages, Page(es))
    /\ UNCHANGED <<title, title_candidates, tpc,
                   scoreVars, normVars, batchVars>>

ExtractTitle ==
    /\ tpc = "input"
    /\ title' = extract_title(pdf_pages).title
    /\ title_candidates' = extract_title(pdf_pages).candidates
    /\ tpc' = "returned"
    /\ UNCHANGED <<pdf_pages, scoreVars, normVars, batchVars>>

NextTitle == AppendPage \/ ExtractTitle

SpecTitle == InitTitle /\ [][NextTitle]_vars

\* Places <<p, i>> (page index from 0, element index from 1) of the
\* elements of the first three pages that score above zero
ScoringPlaces ==
    {pl \in UNION {{<<p, i>> : i \in 1..Len(pdf_pages[p + 1].text_elements)} :
                      p \in 0..(Len(pdf_pages) - 1)} :
        /\ pl[1] < 3
        /\ calculate_title_score(pdf_pages[pl[1] + 1].text_elements[pl[2]],
                                 pl[1]) > 0}

PlaceElement(pl) == pdf_pages[pl[1] + 1].text_elements[pl[2]]

Earlier(a, b) == a[1] < b[1] \/ (a[1] = b[1] /\ a[2] < b[2])

\* C4: the returned candidates are in non-increasing score order, candidates
\* of equal score keep their encounter order (page, then reading order), and
\* the title is the text of the first-encountered element of maximal score.
StableRanking ==
    tpc = "returned" =>
        LET cs == title_candidates
            enc == CollectCandidates(pdf_pages, 0)
        IN  /\ \A i, j \in 1..Len(cs) : i < j => cs[i].score >= cs[j].score
            /\ \A k \in 1..Len(cs) :
                  SelectSeq(cs, LAMBDA c : c.score = cs[k].score)
                  = SelectSeq(enc, LAMBDA c : c.score = cs[k].score)
            /\ ScoringPlaces # {} =>
                  \E best \in ScoringPlaces :
                      /\ \A pl \in ScoringPlaces :
                            LET sb == calculate_title_score(
                                          PlaceElement(best), best[1])
                                sp == calculate_title_score(
                                          PlaceElement(pl), pl[1])
                            IN  sp < sb \/ (sp = sb /\ ~Earlier(pl, best))
                      /\ title = PlaceElement(best).text

StableRankingWitness ==
    /\ tpc = "returned"
    /\ \E i, j \in 1..Len(title_candidates) :
          /\ i < j
          /\ title_candidates[i].score = title_candidates[j].score
          /\ title_candidates[i].text # title_candidates[j].text
          /\ i = 1
    /\ \E k \in 1..Len(title_candidates) :
          title_candidates[k].score < title_candidates[1].score

Occurrences(seq, x) == Cardinality({i \in 1..Len(seq) : seq[i] = x})

\* C5: the candidate list holds exactly one entry for each element of the
\* first min(3, page_count) pages that scores above zero and nothing else;
\* without such an element the result is "Untitled Document" with an empty
\* list, and otherwise the title is the text of one of those elements.
CandidateFilter ==
    tpc = "returned" =>
        /\ Len(title_candidates) = Cardinality(ScoringPlaces)
        /\ \A pl \in ScoringPlaces :
              LET c == Candidate(PlaceElement(pl), pl[1])
              IN  Occurrences(title_candidates, c)
                  = Cardinality({q \in ScoringPlaces :
                                    Candidate(PlaceElement(q), q[1]) = c})
        /\ ScoringPlaces = {} =>
              title = UntitledDocument /\ title_candidates = <<>>
        /\ ScoringPlaces # {} =>
              \E pl \in ScoringPlaces : title = PlaceElement(pl).text

CandidateFilterWitness ==
    /\ tpc = "returned"
    /\ Len(pdf_pages) = 4
    /\ \E e \in ElementPool :
          /\ pdf_pages[4].text_elements = <<e>>
          /\ calculate_title_score(e, 3) > 0
    /\ \E i \in 1..Len(pdf_pages[3].text_elements) :
          calculate_title_score(pdf_pages[3].text_elements[i], 2) = 0
    /\ Len(title_candidates) = 1

\* The empty case of C5
EmptyFallbackWitness ==
    /\ tpc = "returned"
    /\ \E p \in 1..Len(pdf_pages) : pdf_pages[p].text_elements # <<>>
    /\ title = UntitledDocument /\ title_candidates = <<>>

----------------------------------------------------------------------------
(* extract_title on single-page documents: one large span, small spans *)

LargeSpans ==
    {TextElement(t, f, xw[1], y, 612, 792, TRUE, i, xw[2]) :
        t \in {AnnualReport, Rep("A", 10), Rep("a", 100)},
        f \in {18, 24}, xw \in {<<400, 200>>, <<0, 1000>>},
        y \in {710, 950, 960}, i \in BOOLEAN}

SmallSpans ==
    {TextElement(t, f, xw[1], y, 612, 792, b, i, xw[2]) :
        t \in {Rep("A", 10), <<"1","2">>, <<"P","a","g","e"," ","1">>,
               Rep("a", 101)},
        f \in {10, 13}, xw \in {<<400, 200>>, <<0, 100>>, <<600, 300>>},
        y \in {40, 190, 500, 810, 900},
        b \in BOOLEAN, i \in BOOLEAN}

\* The page holding l and s in one of three arrangements
E2EPage(l, s, k) ==
    IF k = 1 THEN Page(<<l, s>>)
    ELSE IF k = 2 THEN Page(<<s, l>>) ELSE Page(<<s, l, s>>)

InitE2E ==
    /\ \E l \in LargeSpans, s \in SmallSpans, k \in 1..3 :
          pdf_pages = <<E2EPage(l, s, k)>>
    /\ title = <<>>
    /\ title_candidates = <<>>
    /\ tpc = "input"
    /\ IdleScore /\ IdleNorm /\ IdleBatch

NextE2E == ExtractTitle

SpecE2E == InitE2E /\ [][NextE2E]_vars

\* At least 18pt, bold, centred, in the top 30% of the page, 10 to 100
\* characters, not a page number
IsLargeSpan(e) ==
    /\ e.font_size >= 18
    /\ e.is_bold
    /\ Abs(2 * e.x_position + e.width - 1000) < 200
    /\ e.y_position > 700
    /\ Len(e.text) >= 10 /\ Len(e.text) <= 100
    /\ ~is_page_number(e)

Dominates(i) ==
    LET es == pdf_pages[1].text_elements IN
    /\ title = es[i].text
    /\ \A j \in 1..Len(es) :
          es[j].font_size < 14 =>
              calculate_title_score(es[i], 0) > calculate_title_score(es[j], 0)

\* The documents C7 speaks of: one page, the span at index i large, every
\* other span below 14pt and at another place
OneLargeSpan(i) ==
    LET es == pdf_pages[1].text_elements IN
    /\ Len(pdf_pages) = 1
    /\ IsLargeSpan(es[i])
    /\ \A j \in 1..Len(es) :
          j # i => /\ es[j].font_size < 14
                   /\ <<es[j].x_position, es[j].y_position>>
                      # <<es[i].x_position, es[i].y_position>>

\* C7 as stated: the large span's text is the title and its score exceeds
\* that of every small span.
TitleDominanceClaimed ==
    tpc = "returned" =>
        \A i \in 1..Len(pdf_pages[1].text_elements) :
            OneLargeSpan(i) => Dominates(i)

\* C7 amended: the same, for a large span that lies in the top 30% of the
\* page but not in the header band (0.7 < y_position <= 0.95).
TitleDominance ==
    tpc = "returned" =>
        \A i \in 1..Len(pdf_pages[1].text_elements) :
            (OneLargeSpan(i)
             /\ pdf_pages[1].text_elements[i].y_position <= 950)
                => Dominates(i)

TitleDominanceWitness ==
    /\ tpc = "returned"
    /\ \E i \in 1..Len(pdf_pages[1].text_elements) :
          /\ OneLargeSpan(i)
          /\ pdf_pages[1].text_elements[i].y_position <= 950
          /\ calculate_title_score(pdf_pages[1].text_elements[i], 0) = 115
          /\ title = pdf_pages[1].text_elements[i].text
    /\ \E j \in 1..Len(pdf_pages[1].text_elements) :
          /\ pdf_pages[1].text_elements[j].font_size < 14
          /\ calculate_title_score(pdf_pages[1].text_elements[j], 0) = 98

----------------------------------------------------------------------------
(* extract_text_elements_from_pdf(pdf_path) *)

\* A file is [openable, pages]; a page is [rect, damaged, blocks] where
\* page.get_text raises on a damaged page; a text block has "lines", an
\* image block has none; a span is [text, size, flags, bbox].
RawSpan(text, size, flags, bbox) ==
    [text |-> text, size |-> size, flags |-> flags, bbox |-> bbox]

RECURSIVE Flatten(_)
Flatten(ss) == IF ss = <<>> THEN <<>> ELSE Head(ss) \o Flatten(Tail(ss))

\* for block / if "lines" in block / for line / for span
BlockSpans(block) ==
    IF "lines" \in DOMAIN block
    THEN Flatten([i \in 1..Len(block.lines) |-> block.lines[i].spans])
    ELSE <<>>

PageSpans(page) ==
    Flatten([i \in 1..Len(page.blocks) |-> BlockSpans(page.blocks[i])])

\* flags & 2**k, as a truth value
HasBit(flags, k) == (flags \div (2 ^ k)) % 2 = 1

\* Lines 39-66: the element built from one span (thousandths, rounded down)
NormalizeSpan_mut(span, rect) ==
    TextElement(span.text, span.size,
                (span.bbox[1] * 1000) \div rect.width,
                1000 - ((span.bbox[2] * 1000) \div rect.height),
                rect.width, rect.height,
                HasBit(span.flags, 4), HasBit(span.flags, 1),
                ((span.bbox[3] - span.bbox[1]) * 1000) \div rect.width)

NormalizeSpan(span, rect) ==
    TextElement(strip(span.text), span.size,
                (span.bbox[1] * 1000) \div rect.width,
                1000 - ((span.bbox[2] * 1000) \div rect.height),
                rect.width, rect.height,
                HasBit(span.flags, 4), HasBit(span.flags, 1),
                ((span.bbox[3] - span.bbox[1]) * 1000) \div rect.width)

\* One iteration of the page loop: spans with empty trimmed text are skipped
NormalizePage(page) ==
    LET kept == SelectSeq(PageSpans(page), LAMBDA sp : strip(sp.text) # <<>>)
    IN  Page([i \in 1..Len(kept) |-> NormalizeSpan(kept[i], page.rect)])

PageLimit(file) == IF Len(file.pages) < 3 THEN Len(file.pages) ELSE 3

\* Inputs: files of up to MaxDocPages pages with up to MaxSpans spans in all
MaxDocPages == 4
MaxSpans == 3

SpanPool ==
    { RawSpan(<<" ","T","i","t","l","e","\t">>, 24, 16, <<100, 0, 400, 40>>),
      RawSpan(<<" ","\n">>, 10, 0, <<100, 400, 200, 412>>),
      RawSpan(<<"b","o","d","y">>, 10, 18, <<-20, 800, 1200, 812>>) }

Rect(width, height) == [width |-> width, height |-> height]

\* Kind 1: one text block, the first span on its own line.  Kind 2: an
\* image block, then one text block per span.  Kind 3: a damaged page.
RawPage(spans, kind) ==
    IF kind = 1
    THEN [rect |-> Rect(500, 1000), damaged |-> FALSE,
          blocks |-> <<[lines |->
                          IF spans = <<>> THEN <<>>
                          ELSE <<[spans |-> <<Head(spans)>>],
                                 [spans |-> Tail(spans)]>>]>>]
    ELSE IF kind = 2
    THEN [rect |-> Rect(1000, 800), damaged |-> FALSE,
          blocks |-> <<[image |-> TRUE]>>
                     \o [i \in 1..Len(spans) |->
                            [lines |-> <<[spans |-> <<spans[i]>>]>>]]]
    ELSE [rect |-> Rect(500, 1000), damaged |-> TRUE, blocks |-> <<>>]

Unopenable == [openable |-> FALSE, pages |-> <<>>]

RECURSIVE SpanCount(_)
SpanCount(pages) ==
    IF pages = <<>> THEN 0
    ELSE Len(PageSpans(Head(pages))) + SpanCount(Tail(pages))

InitNorm ==
    /\ doc \in {Unopenable, [openable |-> TRUE, pages |-> <<>>]}
    /\ doc_open = FALSE
    /\ n_page_num = 0
    /\ norm_pages = <<>>
    /\ npc = "input"
    /\ IdleScore /\ IdleTitle /\ IdleBatch

\* The pages a file may get after the pages it has: any page within the
\* span budget among the first three, and past those, which the page loop
\* never reads, an empty or a damaged page
NextRawPages(pages) ==
    IF Len(pages) < 3
    THEN {RawPage(ss, kind) :
             ss \in SeqsUpTo(SpanPool, MaxSpans - SpanCount(pages)),
             kind \in 1..2} \cup {RawPage(<<>>, 3)}
    ELSE {RawPage(<<>>, 1), RawPage(<<>>, 3)}

\* The file at pdf_path: one more page in the document to be opened
AddRawPage ==
    /\ npc = "input"
    /\ doc.openable
    /\ Len(doc.pages) < MaxDocPages
    /\ \E pg \in NextRawPages(doc.pages) :
          doc' = [doc EXCEPT !.pages = Append(@, pg)]
    /\ UNCHANGED <<doc_open, n_page_num, norm_pages, npc,
                   scoreVars, titleVars, batchVars>>

\* doc = fitz.open(pdf_path); pdf_pages = []
OpenDoc ==
    /\ npc = "input"
    /\ doc.openable
    /\ doc_open' = TRUE
    /\ npc' = "pages"
    /\ UNCHANGED <<doc, n_page_num, norm_pages,
                   scoreVars, titleVars, batchVars>>

\* fitz.open raises: nothing was opened
OpenDocFails ==
    /\ npc = "input"
    /\ ~doc.openable
    /\ npc' = "raised"
    /\ UNCHANGED <<doc, doc_open, n_page_num, norm_pages,
                   scoreVars, titleVars, batchVars>>

\* One iteration of the page loop
ReadPage ==
    /\ npc = "pages"
    /\ n_page_num < PageLimit(doc)
    /\ ~doc.pages[n_page_num + 1].damaged
    /\ norm_pages' = Append(norm_pages, NormalizePage(doc.pages[n_page_num + 1]))
    /\ n_page_num' = n_page_num + 1
    /\ UNCHANGED <<doc, doc_open, npc, scoreVars, titleVars, batchVars>>

\* The page loop raises: the function is left before doc.close()
ReadPageFails ==
    /\ npc = "pages"
    /\ n_page_num < PageLimit(doc)
    /\ doc.pages[n_page_num + 1].damaged
    /\ npc' = "raised"
    /\ UNCHANGED <<doc, doc_open, n_page_num, norm_pages,
                   scoreVars, titleVars, batchVars>>

\* doc.close(); return pdf_pages
CloseDoc ==
    /\ npc = "pages"
    /\ n_page_num = PageLimit(doc)
    /\ doc_open' = FALSE
    /\ npc' = "returned"
    /\ UNCHANGED <<doc, n_page_num, norm_pages,
                   scoreVars, titleVars, batchVars>>

NextNorm == AddRawPage \/ OpenDoc \/ OpenDocFails \/ ReadPage \/ ReadPageFails \/ CloseDoc

SpecNorm == InitNorm /\ [][NextNorm]_vars

IsBlank(t) == \A i \in 1..Len(t) : t[i] \in SpaceChars

\* es comes from spans by dropping blank spans and keeping the order
KeepsOrder(es, spans) ==
    \E f \in [1..Len(es) -> 1..Len(spans)] :
        /\ \A i, j \in 1..Len(es) : i < j => f[i] < f[j]
        /\ \A i \in 1..Len(es) :
              /\ es[i].font_size = spans[f[i]].size
              /\ Len(es[i].text) <= Len(spans[f[i]].text)
              /\ \E a \in 0..(Len(spans[f[i]].text) - Len(es[i].text)) :
                    /\ SubSeq(spans[f[i]].text, a + 1, a + Len(es[i].text))
                       = es[i].text
                    /\ IsBlank(SubSeq(spans[f[i]].text, 1, a))
                    /\ IsBlank(SubSeq(spans[f[i]].text, a + Len(es[i].text) + 1,
                                      Len(spans[f[i]].text)))
        /\ \A k \in 1..Len(spans) :
              (\A i \in 1..Len(es) : f[i] # k) => IsBlank(spans[k].text)

\* C9: every element appended has non-empty text without leading or
\* trailing whitespace, a span that is blank after trimming gives no
\* element, and the surviving spans keep their order within the page.
TrimmedText ==
    \A p \in 1..Len(norm_pages) :
        LET es == norm_pages[p].text_elements IN
        /\ \A i \in 1..Len(es) :
              /\ es[i].text # <<>>
              /\ es[i].text[1] \notin SpaceChars
              /\ es[i].text[Len(es[i].text)] \notin SpaceChars
        /\ KeepsOrder(es, PageSpans(doc.pages[p]))

TrimmedTextWitness ==
    /\ npc = "returned"
    /\ \E p \in 1..Len(norm_pages) :
          /\ Len(PageSpans(doc.pages[p])) = 3
          /\ IsBlank(PageSpans(doc.pages[p])[2].text)
          /\ Len(norm_pages[p].text_elements) = 2
          /\ norm_pages[p].text_elements[2].text = <<"b","o","d","y">>
          /\ norm_pages[p].text_elements[1].text = <<"T","i","t","l","e">>

\* C10: every element built from a span has x_position, y_position and
\* width within [0, 1], wherever the span's bounding box lies.
NormalizedRange ==
    \A p \in 1..Len(norm_pages) :
        \A i \in 1..Len(norm_pages[p].text_elements) :
            LET e == norm_pages[p].text_elements[i] IN
            /\ 0 <= e.x_position /\ e.x_position <= 1000
            /\ 0 <= e.y_position /\ e.y_position <= 1000
            /\ 0 <= e.width /\ e.width <= 1000

----------------------------------------------------------------------------
(* process_pdfs() *)

MaxFiles == 2

\* Directory entries are [stem, ext]; Path.glob("*.pdf") keeps ext = "pdf"
FileNames == {[stem |-> i, ext |-> x] : i \in 1..MaxFiles, x \in {"pdf", "txt"}}

TitlePage ==
    RawPage(<<RawSpan(<<" ","T","i","t","l","e","\t">>, 24, 16,
                      <<100, 0, 400, 40>>),
              RawSpan(<<"b","o","d","y">>, 10, 18, <<-20, 800, 1200, 812>>)>>, 1)

NumberPage == RawPage(<<RawSpan(<<"p","1">>, 10, 6, <<-20, -4, 60, 8>>)>>, 2)

\* A titled file, a file without candidates, a file whose second page
\* cannot be read, a file that cannot be opened
Library ==
    { [openable |-> TRUE, pages |-> <<TitlePage, NumberPage>>],
      [openable |-> TRUE, pages |-> <<NumberPage>>],
      [openable |-> TRUE, pages |-> <<TitlePage, RawPage(<<>>, 3)>>],
      Unopenable }

InputDirs ==
    UNION {{d \in [S -> Library] :
               \A n \in S : n.ext = "txt" => d[n] = Unopenable} :
              S \in SUBSET FileNames}

Absent == [state |-> "absent"]
Partial == [state |-> "partial"]
Json(t) == [state |-> "json", title |-> t, outline |-> <<>>]

\* The orders in which glob may list a set of names
Orders(S) ==
    {q \in [1..Cardinality(S) -> S] :
        \A i, j \in 1..Cardinality(S) : i # j => q[i] # q[j]}

\* What the page loop returns for a file it can read
NormalizeFile(file) ==
    [p \in 1..PageLimit(file) |-> NormalizePage(file.pages[p])]

Readable(file) ==
    \A p \in 1..PageLimit(file) : ~file.pages[p].damaged

CurrentFile == pdf_files[file_idx]

\* End of one iteration of the for loop
Advance ==
    IF file_idx < Len(pdf_files)
    THEN file_idx' = file_idx + 1 /\ bpc' = "open"
    ELSE file_idx' = file_idx /\ bpc' = "done"

InitBatch ==
    /\ input_dir \in InputDirs
    /\ output_dir = [i \in 1..MaxFiles |-> Absent]
    /\ pdf_files = <<>>
    /\ file_idx = 0
    /\ cur_pages = <<>>
    /\ handles = {}
    /\ closed = {}
    /\ started = {}
    /\ bpc = "mkdir"
    /\ IdleScore /\ IdleTitle /\ IdleNorm

\* output_dir.mkdir(parents=True, exist_ok=True)
Mkdir ==
    /\ bpc = "mkdir"
    /\ bpc' = "glob"
    /\ UNCHANGED <<input_dir, output_dir, pdf_files, file_idx, cur_pages,
                   handles, closed, started, scoreVars, titleVars, normVars>>

\* mkdir raises: process_pdfs is left before any file is looked at
MkdirFails ==
    /\ bpc = "mkdir"
    /\ bpc' = "mkdir_raised"
    /\ UNCHANGED <<input_dir, output_dir, pdf_files, file_idx, cur_pages,
                   handles, closed, started, scoreVars, titleVars, normVars>>

\* pdf_files = list(input_dir.glob("*.pdf")), non-empty
Glob ==
    /\ bpc = "glob"
    /\ LET pdfs == {n \in DOMAIN input_dir : n.ext = "pdf"} IN
       /\ pdfs # {}
       /\ pdf_files' \in Orders(pdfs)
    /\ file_idx' = 1
    /\ bpc' = "open"
    /\ UNCHANGED <<input_dir, output_dir, cur_pages, handles, closed,
                   started, scoreVars, titleVars, normVars>>

\* if not pdf_files: return
GlobEmpty ==
    /\ bpc = "glob"
    /\ {n \in DOMAIN input_dir : n.ext = "pdf"} = {}
    /\ bpc' = "done"
    /\ UNCHANGED <<input_dir, output_dir, pdf_files, file_idx, cur_pages,
                   handles, closed, started, scoreVars, titleVars, normVars>>

\* The iteration starts; fitz.open succeeds and a handle is held
OpenPdf ==
    /\ bpc = "open"
    /\ input_dir[CurrentFile].openable
    /\ started' = started \cup {CurrentFile}
    /\ handles' = handles \cup {CurrentFile}
    /\ bpc' = "extract"
    /\ UNCHANGED <<input_dir, output_dir, pdf_files, file_idx, cur_pages,
                   closed, scoreVars, titleVars, normVars>>

\* The iteration starts; fitz.open raises
OpenPdfFails ==
    /\ bpc = "open"
    /\ ~input_dir[CurrentFile].openable
    /\ started' = started \cup {CurrentFile}
    /\ bpc' = "except"
    /\ UNCHANGED <<input_dir, output_dir, pdf_files, file_idx, cur_pages,
                   handles, closed, scoreVars, titleVars, normVars>>

\* The page loop runs through; doc.close(); return pdf_pages
ExtractPages ==
    /\ bpc = "extract"
    /\ Readable(input_dir[CurrentFile])
    /\ cur_pages' = NormalizeFile(input_dir[CurrentFile])
    /\ handles' = handles \ {CurrentFile}
    /\ closed' = closed \cup {CurrentFile}
    /\ bpc' = "write"
    /\ UNCHANGED <<input_dir, output_dir, pdf_files, file_idx, started,
                   scoreVars, titleVars, normVars>>

\* The page loop raises: doc.close() is not reached
ExtractPagesFails ==
    /\ bpc = "extract"
    /\ ~Readable(input_dir[CurrentFile])
    /\ bpc' = "except"
    /\ UNCHANGED <<input_dir, output_dir, pdf_files, file_idx, cur_pages,
                   handles, closed, started, scoreVars, titleVars, normVars>>

\* extract_title, then open(output_file, "w") and json.dump inside the try.
\* The open may raise (file untouched) and the dump may raise (file
\* truncated or half written).
WriteOutput ==
    /\ bpc = "write"
    /\ \E outcome \in {"written", "open_raises", "dump_raises"} :
          IF outcome = "written"
          THEN /\ output_dir' =
                     [output_dir EXCEPT ![CurrentFile.stem] =
                         Json(extract_title(cur_pages).title)]
               /\ Advance
          ELSE /\ output_dir' =
                     IF outcome = "dump_raises"
                     THEN [output_dir EXCEPT ![CurrentFile.stem] = Partial]
                     ELSE output_dir
               /\ file_idx' = file_idx
               /\ bpc' = "except"
    /\ UNCHANGED <<input_dir, pdf_files, cur_pages, handles, closed,
                   started, scoreVars, titleVars, normVars>>

\* The except block: the fallback record is written outside any try, so a
\* raise here leaves process_pdfs.  A handle that was left open is released
\* only if the runtime finalizes the abandoned document object.
WriteFallback ==
    /\ bpc = "except"
    /\ \E outcome \in {"written", "open_raises", "dump_raises"} :
          IF outcome = "written"
          THEN /\ output_dir' =
                     [output_dir EXCEPT ![CurrentFile.stem] =
                         Json(UntitledDocument)]
               /\ Advance
          ELSE /\ output_dir' =
                     IF outcome = "dump_raises"
                     THEN [output_dir EXCEPT ![CurrentFile.stem] = Partial]
                     ELSE output_dir
               /\ file_idx' = file_idx
               /\ bpc' = "raised"
    /\ \E finalized \in BOOLEAN :
          handles' = IF finalized THEN handles \ {CurrentFile} ELSE handles
    /\ UNCHANGED <<input_dir, pdf_files, cur_pages, closed, started,
                   scoreVars, titleVars, normVars>>

NextBatch ==
    \/ Mkdir \/ MkdirFails \/ Glob \/ GlobEmpty
    \/ OpenPdf \/ OpenPdfFails \/ ExtractPages \/ ExtractPagesFails
    \/ WriteOutput \/ WriteFallback

SpecBatch == InitBatch /\ [][NextBatch]_vars

PdfNames == {n \in DOMAIN input_dir : n.ext = "pdf"}

\* The title the pipeline extracts from a readable file
ExtractedTitle(file) == extract_title(NormalizeFile(file)).title

\* C1: once the output directory exists, when the batch ends every *.pdf of
\* the input directory has its <stem>.json, holding either the extracted
\* title or the fallback record, with an empty outline.
FallbackTotality ==
    bpc \in {"done", "raised"} =>
        \A n \in PdfNames :
            /\ output_dir[n.stem].state = "json"
            /\ output_dir[n.stem].outline = <<>>
            /\ \/ output_dir[n.stem].title = UntitledDocument
               \/ /\ input_dir[n].openable
                  /\ Readable(input_dir[n])
                  /\ output_dir[n.stem].title = ExtractedTitle(input_dir[n])

\* C2: the handle of every document is closed by doc.close() before the
\* next document starts or process_pdfs is left, no two handles are open
\* together, and none is open when the batch ends.
HandleRelease ==
    /\ Cardinality(handles) <= 1
    /\ bpc \in {"open", "done", "raised"} =>
          \A n \in started : input_dir[n].openable => n \in closed
    /\ bpc \in {"done", "raised"} => handles = {}

\* C8: no failure within a document ends process_pdfs; every *.pdf is
\* processed, and only a failed mkdir ends the run early.
BatchContinuation ==
    /\ bpc # "raised"
    /\ bpc = "done" => started = PdfNames

====
